---- MODULE Spec2Model ----
(***************************************************************************)
(* Autorevert pattern detection (src/src/autorevert_checker.py).           *)
(*                                                                         *)
(* The history source (ClickHouse) is the environment: the table           *)
(* workflow_job grows row by row and the table push holds the commit       *)
(* messages.  One AutorevertPatternChecker instance fetches from it,       *)
(* caches what it fetched and answers detect_autorevert_pattern_workflow,  *)
(* detect_autorevert_pattern and is_commit_reverted.  A                    *)
(* WorkflowRestartChecker (src/src/workflow_checker.py) answers from the   *)
(* same source whether a workflow was dispatched by hand for a commit.     *)
(*                                                                         *)
(* Timestamps are seconds.  SHAs of workflow_job rows are numbered in      *)
(* their string order (the ORDER BY head_sha of the fetch query is the     *)
(* only use the detector makes of a SHA besides equality).  A job name is  *)
(* the sequence of its ", "-separated fields.                              *)
(***************************************************************************)
EXTENDS Integers, Sequences, FiniteSets, TLC

VARIABLES
    defined_jobs,             \* the source: the jobs the workflows of the repository run
    workflow_job,             \* the source table: rows on head_branch = 'main' inside the lookback
    run_created_at,           \* the source: workflow_created_at of the runs of each head_sha
    push,                     \* the source table default.push: commits on refs/heads/main
    workflow_names,           \* self.workflow_names
    _workflow_commits_cache,  \* self._workflow_commits_cache
    _commit_history,          \* self._commit_history (NoHistory for None)
    result,                   \* the last call made on a checker and what it returned
    job_events,               \* the source table workflow_job as WorkflowRestartChecker reads it
    _cache,                   \* WorkflowRestartChecker._cache
    queries_sent,             \* the client: has_restarted_workflow queries per pair since the last clear
    tags,                     \* GitHub: the tag refs of the repository
    restarter                 \* each caller of WorkflowRestarter.restart_workflow_for_commit: where it is

vars == <<defined_jobs, workflow_job, run_created_at, push, workflow_names,
          _workflow_commits_cache, _commit_history, result,
          job_events, _cache, queries_sent, tags, restarter>>

\* The repository on GitHub and the calls of WorkflowRestarter under way
restarter_vars == <<tags, restarter>>

\* The state of AutorevertPatternChecker and of the tables it reads
checker_vars == <<defined_jobs, workflow_job, run_created_at, push, workflow_names,
                  _workflow_commits_cache, _commit_history>>

\* The state of WorkflowRestartChecker and of the table it reads
restart_vars == <<job_events, _cache, queries_sent>>

-----------------------------------------------------------------------------
(* Bounds and value domains                                                *)

MaxRows == 4

SecondsPerHour == 3600

Workflows == {"pull", "trunk"}

Shas == {1, 2, 3}

Rules == {"X", "Y"}

\* The time from one commit to the next: none, inside the window of 8 hours,
\* exactly the window, beyond it.
Gaps == {0, 4 * SecondsPerHour, 8 * SecondsPerHour, 12 * SecondsPerHour}

DigitFields == {"1", "2", "3", "4"}

\* The jobs a run can report: name, conclusion, status, classification rule.
JobMenu ==
    { [name |-> <<"build">>, conclusion |-> "failure", status |-> "completed",
       classification_rule |-> "X"],
      [name |-> <<"test (default", "1", "2", "linux)">>, conclusion |-> "failure",
       status |-> "completed", classification_rule |-> "Y"],
      [name |-> <<"docs">>, conclusion |-> "", status |-> "pending",
       classification_rule |-> ""],
      [name |-> <<"bench">>, conclusion |-> "failure", status |-> "completed",
       classification_rule |-> ""] }

\* Job names in ascending string order (ORDER BY ... name).
JobNameOrder ==
    << <<"bench">>, <<"build">>, <<"docs">>,
       <<"test (default", "1", "2", "linux)">>,
       <<"test (default", "2", "2", "linux)">> >>

NameRank(name) == CHOOSE k \in 1..Len(JobNameOrder) : JobNameOrder[k] = name

-----------------------------------------------------------------------------
(* Job/Commit model: JobResult, CommitJobs                                 *)

JobResult(row) ==
    [head_sha |-> row.head_sha, name |-> row.name, conclusion |-> row.conclusion,
     status |-> row.status, classification_rule |-> row.classification_rule,
     workflow_created_at |-> row.workflow_created_at]

failed_jobs(commit) ==
    SelectSeq(commit.jobs,
              LAMBDA j : j.conclusion = "failure" /\ j.classification_rule # "")

has_pending_jobs(commit) ==
    \E k \in 1..Len(commit.jobs) : commit.jobs[k].status = "pending"

\* re.sub(r', \d+, \d+, ', ', ', name) on the fields of a name: the scan is at
\* field k, before which a ", " stands.  A match takes fields k and k+1 (both
\* digits) and the ", " after them, so field k+2 is copied and the next match
\* can start no earlier than the ", " after it.
RECURSIVE NormalizeScan(_, _)
NormalizeScan(name, k) ==
    IF k > Len(name) THEN <<>>
    ELSE IF k + 1 < Len(name) /\ name[k] \in DigitFields /\ name[k + 1] \in DigitFields
         THEN <<name[k + 2]>> \o NormalizeScan(name, k + 3)
         ELSE <<name[k]>> \o NormalizeScan(name, k + 1)

normalize_job_name(name) ==
    IF name = <<>> THEN <<>> ELSE <<name[1]>> \o NormalizeScan(name, 2)

-----------------------------------------------------------------------------
(* _fetch_workflow_data                                                    *)

Range(seq) == {seq[k] : k \in 1..Len(seq)}

WorkflowOrder == <<"pull", "trunk">>

WorkflowRank(w) == CHOOSE k \in 1..Len(WorkflowOrder) : WorkflowOrder[k] = w

\* ORDER BY workflow_name, workflow_created_at DESC, head_sha, name
RowBefore(a, b) ==
    \/ WorkflowRank(a.workflow_name) < WorkflowRank(b.workflow_name)
    \/ /\ a.workflow_name = b.workflow_name
       /\ \/ a.workflow_created_at > b.workflow_created_at
          \/ /\ a.workflow_created_at = b.workflow_created_at
             /\ \/ a.head_sha < b.head_sha
                \/ /\ a.head_sha = b.head_sha
                   /\ NameRank(a.name) < NameRank(b.name)

RECURSIVE OrderRows(_)
OrderRows(rows) ==
    IF rows = {} THEN <<>>
    ELSE LET first == CHOOSE r \in rows : \A o \in rows \ {r} : RowBefore(r, o)
         IN  <<first>> \o OrderRows(rows \ {first})

\* result.result_rows of the workflow_job query
QueryRows(table, names) ==
    OrderRows({r \in table : r.workflow_name \in Range(names)})

NoData == [w \in {} |-> <<>>]

\* The grouping loop: workflow_commits_data[workflow_name][head_sha], each
\* inner dict kept as the list of its values in insertion order.
RECURSIVE GroupRows(_, _, _)
GroupRows(rows, k, data) ==
    IF k > Len(rows) THEN data
    ELSE LET row == rows[k]
             w == row.workflow_name
             commits == IF w \in DOMAIN data THEN data[w] ELSE <<>>
             known == \E i \in 1..Len(commits) : commits[i].head_sha = row.head_sha
             opened == IF known THEN commits
                       ELSE Append(commits, [head_sha |-> row.head_sha,
                                             created_at |-> row.workflow_created_at,
                                             jobs |-> <<>>])
             at == CHOOSE i \in 1..Len(opened) : opened[i].head_sha = row.head_sha
             grown == [opened EXCEPT ![at].jobs = Append(@, JobResult(row))]
         IN  GroupRows(rows, k + 1,
                       [v \in DOMAIN data \cup {w} |-> IF v = w THEN grown ELSE data[v]])

\* reverse=True left out: oldest first.
InsertByCreatedAtAsc(sorted, commit) ==
    LET earlier == {i \in 1..Len(sorted) : sorted[i].created_at > commit.created_at}
        at == IF earlier = {} THEN Len(sorted) + 1
              ELSE CHOOSE i \in earlier : \A o \in earlier : i <= o
    IN  SubSeq(sorted, 1, at - 1) \o <<commit>> \o SubSeq(sorted, at, Len(sorted))

\* sorted(..., key=created_at, reverse=True): stable, equal keys keep their order.
InsertByCreatedAtDesc(sorted, commit) ==
    LET later == {i \in 1..Len(sorted) : sorted[i].created_at < commit.created_at}
        at == IF later = {} THEN Len(sorted) + 1
              ELSE CHOOSE i \in later : \A o \in later : i <= o
    IN  SubSeq(sorted, 1, at - 1) \o <<commit>> \o SubSeq(sorted, at, Len(sorted))

RECURSIVE SortByCreatedAtDesc(_, _, _)
SortByCreatedAtDesc(commits, k, sorted) ==
    IF k > Len(commits) THEN sorted
    ELSE SortByCreatedAtDesc(commits, k + 1, InsertByCreatedAtDesc(sorted, commits[k]))

\* The cache after _fetch_workflow_data: entries of workflows with data are
\* overwritten, configured workflows without an entry get [].
_fetch_workflow_data(cache, table, names) ==
    IF names = <<>> THEN cache
    ELSE LET data == GroupRows(QueryRows(table, names), 1, NoData)
             stored == [w \in DOMAIN cache \cup DOMAIN data |->
                           IF w \in DOMAIN data
                           THEN SortByCreatedAtDesc(data[w], 1, <<>>)
                           ELSE cache[w]]
         IN  [w \in DOMAIN stored \cup Range(names) |->
                 IF w \in DOMAIN stored THEN stored[w] ELSE <<>>]

\* get_workflow_commits: the cache it leaves, and the list it returns.
CacheAfterGet(cache, table, names, workflow_name) ==
    IF workflow_name \notin DOMAIN cache
    THEN _fetch_workflow_data(cache, table, names)
    ELSE cache

get_workflow_commits(cache, workflow_name) ==
    IF workflow_name \in DOMAIN cache THEN cache[workflow_name] ELSE <<>>

-----------------------------------------------------------------------------
(* detect_autorevert_pattern_workflow                                      *)

lookback_hours == 8

lookahead_hours == 8

\* The window taken as exclusive at its boundary.
HoursApartAtLeast(later, earlier, hours) ==
    later - earlier >= hours * SecondsPerHour

\* No commit is ever too far away: the windows have no end.
HoursApartNever(later, earlier, hours) == FALSE

\* (later - earlier).total_seconds() / 3600 > hours
HoursApartExceed(later, earlier, hours) ==
    later - earlier > hours * SecondsPerHour

\* for j in range(i + 1, len(commits)): ... break
RECURSIVE LookbackScan(_, _, _)
LookbackScan(commits, target_time, j) ==
    IF j > Len(commits) THEN <<>>
    ELSE IF HoursApartExceed(target_time, commits[j].created_at, lookback_hours)
         THEN <<>>
         ELSE <<commits[j]>> \o LookbackScan(commits, target_time, j + 1)

\* The scan from index j towards the newest commit, up to the first commit
\* beyond the window.
RECURSIVE ScanTowardsNewest(_, _, _)
ScanTowardsNewest(commits, target_time, j) ==
    IF j < 1 THEN <<>>
    ELSE IF HoursApartExceed(commits[j].created_at, target_time, lookahead_hours)
         THEN <<>>
         ELSE <<commits[j]>> \o ScanTowardsNewest(commits, target_time, j - 1)

\* The scan started at the target itself: range(i, -1, -1).
LookaheadScanFromTarget(commits, target_time, j) ==
    ScanTowardsNewest(commits, target_time, j + 1)

\* The window listed newest first.
LookaheadScanNewestFirst(commits, target_time, j) ==
    LET window == ScanTowardsNewest(commits, target_time, j)
    IN  [k \in 1..Len(window) |-> window[Len(window) + 1 - k]]

\* The lookahead taken from the older side of the target.
LookaheadScanTowardsOlder(commits, target_time, j) ==
    LookbackScan(commits, target_time, j + 2)

\* for j in range(i - 1, -1, -1): ... break
RECURSIVE LookaheadScan(_, _, _)
LookaheadScan(commits, target_time, j) ==
    IF j < 1 THEN <<>>
    ELSE IF HoursApartExceed(commits[j].created_at, target_time, lookahead_hours)
         THEN <<>>
         ELSE <<commits[j]>> \o LookaheadScan(commits, target_time, j - 1)

\* any(j.classification_rule == failure_rule for j in commit.failed_jobs)
HasFailure(commit, failure_rule) ==
    \E k \in 1..Len(failed_jobs(commit)) :
        failed_jobs(commit)[k].classification_rule = failure_rule

RECURSIVE ShasWithFailure(_, _, _)
ShasWithFailure(window, failure_rule, k) ==
    IF k > Len(window) THEN <<>>
    ELSE (IF HasFailure(window[k], failure_rule) THEN <<window[k].head_sha>> ELSE <<>>)
         \o ShasWithFailure(window, failure_rule, k + 1)

RECURSIVE FailedJobNames(_, _, _)
FailedJobNames(jobs, failure_rule, k) ==
    IF k > Len(jobs) THEN <<>>
    ELSE (IF jobs[k].classification_rule = failure_rule
          THEN <<normalize_job_name(jobs[k].name)>> ELSE <<>>)
         \o FailedJobNames(jobs, failure_rule, k + 1)

\* One pass of the body of "for failure_rule in target_failures" for the target
\* at index i (1-based; index 1 is the newest commit): the patterns it appends.
\* additional_workflows = <<>> stands for the key being absent;
\* target_commit_time holds the timestamp that isoformat() renders.
PatternForRule(workflow_name, commits, i, failure_rule) ==
    LET target_commit == commits[i]
        target_time == target_commit.created_at
        lookback_commits == LookbackScan(commits, target_time, i + 1)
        lookahead_commits == LookaheadScan(commits, target_time, i - 1)
        failure_in_lookback ==
            \E k \in 1..Len(lookback_commits) : HasFailure(lookback_commits[k], failure_rule)
        lookahead_commits_with_failure == ShasWithFailure(lookahead_commits, failure_rule, 1)
    IN  IF failure_in_lookback THEN <<>>
        ELSE IF lookahead_commits_with_failure = <<>> THEN <<>>
        ELSE << [pattern_detected |-> TRUE,
                 workflow_name |-> workflow_name,
                 failure_rule |-> failure_rule,
                 target_commit |-> target_commit.head_sha,
                 target_commit_time |-> target_time,
                 lookahead_commits |-> lookahead_commits_with_failure,
                 failed_job_names |->
                     FailedJobNames(failed_jobs(target_commit), failure_rule, 1),
                 lookback_window_hours |-> lookback_hours,
                 lookahead_window_hours |-> lookahead_hours,
                 lookback_commits_checked |-> Len(lookback_commits),
                 lookahead_commits_checked |-> Len(lookahead_commits),
                 additional_workflows |-> <<>>] >>

\* Only the rule of the first failed job.
TargetFailuresFirstJobOnly(commit) ==
    {failed_jobs(commit)[1].classification_rule}

\* target_failures = {j.classification_rule for j in target_commit.failed_jobs}
TargetFailures(commit) ==
    {failed_jobs(commit)[k].classification_rule : k \in 1..Len(failed_jobs(commit))}

\* The rules of a Python set come out in an order the hash seed of the process
\* decides: rule_order is that order, a permutation of Rules.
RECURSIVE PatternsForTarget(_, _, _, _, _)
PatternsForTarget(workflow_name, commits, i, rule_order, r) ==
    IF r > Len(rule_order) THEN <<>>
    ELSE (IF rule_order[r] \in TargetFailures(commits[i])
          THEN PatternForRule(workflow_name, commits, i, rule_order[r])
          ELSE <<>>)
         \o PatternsForTarget(workflow_name, commits, i, rule_order, r + 1)

\* The check for pending jobs left out.
IsCandidateTargetDespitePending(commit) ==
    failed_jobs(commit) # <<>>

\* Whether the loop over targets goes on to the rules of commits[i].
IsCandidateTarget(commit) ==
    /\ failed_jobs(commit) # <<>>
    /\ ~has_pending_jobs(commit)

RECURSIVE ScanTargets(_, _, _, _)
ScanTargets(workflow_name, commits, i, rule_order) ==
    IF i > Len(commits) THEN <<>>
    ELSE (IF IsCandidateTarget(commits[i])
          THEN PatternsForTarget(workflow_name, commits, i, rule_order, 1)
          ELSE <<>>)
         \o ScanTargets(workflow_name, commits, i + 1, rule_order)

\* detect_autorevert_pattern_workflow on the list get_workflow_commits returned
detect_autorevert_pattern_workflow(workflow_name, commits, rule_order) ==
    IF commits = <<>> THEN <<>>
    ELSE ScanTargets(workflow_name, commits, 1, rule_order)

-----------------------------------------------------------------------------
(* detect_autorevert_pattern                                               *)

\* Calls of detect_autorevert_pattern_workflow, one after the other, for the
\* workflows `called` (the loop over self.workflow_names, or one call alone),
\* each with the list it worked on, the patterns it returned and the cache it
\* left; `names` is self.workflow_names.
RECURSIVE WorkflowCalls(_, _, _, _, _, _)
WorkflowCalls(called, k, cache, table, names, rule_order) ==
    IF k > Len(called) THEN <<>>
    ELSE LET after == CacheAfterGet(cache, table, names, called[k])
             commits == get_workflow_commits(after, called[k])
         IN  << [workflow_name |-> called[k],
                 commits |-> commits,
                 patterns |-> detect_autorevert_pattern_workflow(called[k], commits, rule_order),
                 cache |-> after] >>
             \o WorkflowCalls(called, k + 1, after, table, names, rule_order)

\* Every pattern kept as a Pattern of its own.
FoldPatternNeverFolding(acc, workflow_name, pattern) ==
    [acc EXCEPT !.all_patterns = Append(@, pattern)]

\* A pattern for a target already seen is skipped.
FoldPatternDroppingSeen(acc, workflow_name, pattern) ==
    LET target_commit == pattern.target_commit
    IN  IF target_commit \in DOMAIN acc.seen_target_commits
        THEN acc
        ELSE [all_patterns |-> Append(acc.all_patterns, pattern),
              seen_target_commits |->
                  [t \in DOMAIN acc.seen_target_commits \cup {target_commit} |->
                      IF t = target_commit THEN Len(acc.all_patterns)
                      ELSE acc.seen_target_commits[t]]]

\* The later pattern for a target takes the place of the one kept, which moves
\* to additional_workflows.
FoldPatternLastWins(acc, workflow_name, pattern) ==
    LET target_commit == pattern.target_commit
    IN  IF target_commit \in DOMAIN acc.seen_target_commits
        THEN LET pattern_idx == acc.seen_target_commits[target_commit]
                 kept == acc.all_patterns[pattern_idx + 1]
             IN  [acc EXCEPT !.all_patterns[pattern_idx + 1] =
                     [pattern EXCEPT !.additional_workflows =
                         Append(kept.additional_workflows,
                                [workflow_name |-> kept.workflow_name,
                                 failure_rule |-> kept.failure_rule])]]
        ELSE [all_patterns |-> Append(acc.all_patterns, pattern),
              seen_target_commits |->
                  [t \in DOMAIN acc.seen_target_commits \cup {target_commit} |->
                      IF t = target_commit THEN Len(acc.all_patterns)
                      ELSE acc.seen_target_commits[t]]]

\* One pass of the body of "for pattern in patterns".  Python's list indices
\* start at 0, a sequence's at 1.
FoldPattern(acc, workflow_name, pattern) ==
    LET target_commit == pattern.target_commit
    IN  IF target_commit \in DOMAIN acc.seen_target_commits
        THEN LET pattern_idx == acc.seen_target_commits[target_commit]
             IN  [acc EXCEPT !.all_patterns[pattern_idx + 1].additional_workflows =
                     Append(@, [workflow_name |-> workflow_name,
                                failure_rule |-> pattern.failure_rule])]
        ELSE [all_patterns |-> Append(acc.all_patterns, pattern),
              seen_target_commits |->
                  [t \in DOMAIN acc.seen_target_commits \cup {target_commit} |->
                      IF t = target_commit THEN Len(acc.all_patterns)
                      ELSE acc.seen_target_commits[t]]]

RECURSIVE FoldPatterns(_, _, _, _)
FoldPatterns(acc, workflow_name, patterns, k) ==
    IF k > Len(patterns) THEN acc
    ELSE FoldPatterns(FoldPattern(acc, workflow_name, patterns[k]),
                      workflow_name, patterns, k + 1)

RECURSIVE FoldCalls(_, _, _)
FoldCalls(acc, calls, k) ==
    IF k > Len(calls) THEN acc
    ELSE FoldCalls(FoldPatterns(acc, calls[k].workflow_name, calls[k].patterns, 1),
                   calls, k + 1)

NoneSeen == [t \in {} |-> 0]

\* detect_autorevert_pattern, given the calls its loop made
detect_autorevert_pattern(calls) ==
    FoldCalls([all_patterns |-> <<>>, seen_target_commits |-> NoneSeen], calls, 1).all_patterns

-----------------------------------------------------------------------------
(* The checker and its source, as a state machine                          *)

NoHistory == "None"

\* No call is under way.  A call leaves its name, its argument, the calls of
\* detect_autorevert_pattern_workflow it made and the value it returned.
NoCall == [op |-> "none", arg |-> "", calls |-> <<>>, value |-> <<>>]

RuleOrders == {<<"X", "Y">>, <<"Y", "X">>}

NoCache == [w \in {} |-> <<>>]

\* The pairs (workflow name, commit SHA) that has_restarted_workflow is asked about
RestartWorkflows == {<<"trunk.yml">>, <<"pull.yml">>}

RestartShas == {"a", "b"}

RestartPairs == RestartWorkflows \X RestartShas

NoResults == [key \in {} |-> FALSE]

\* No WorkflowRestartChecker is in use.
NoRestartChecker ==
    /\ job_events = {}
    /\ _cache = NoResults
    /\ queries_sent = [pair \in RestartPairs |-> 0]

\* The callers of restart_workflow_for_commit on one repository
Callers == {1, 2}

\* A caller that is not inside restart_workflow_for_commit.
Idle == [pc |-> "idle", workflow_name |-> <<>>, commit_sha |-> "",
         requests |-> <<>>, value |-> FALSE]

\* No WorkflowRestarter is in use.
NoRestarter ==
    /\ tags = {}
    /\ restarter = [c \in Callers |-> Idle]

\* The timelines of one repository: when the runs of each commit were created.
\* The detector uses a SHA only for equality and for the order of commits of
\* equal time, so the SHAs are taken to follow the order of the timestamps,
\* the oldest commit at time 0.
Timelines ==
    {[sha \in Shas |-> IF sha = 1 THEN 0 ELSE IF sha = 2 THEN g1 ELSE g1 + g2] :
        g1 \in Gaps, g2 \in Gaps}

\* AutorevertPatternChecker(client, workflow_names=["pull"]) over an empty table
Init ==
    /\ defined_jobs = JobMenu
    /\ workflow_job = {}
    /\ run_created_at \in Timelines
    /\ push = {}
    /\ workflow_names = <<"pull">>
    /\ _workflow_commits_cache = NoCache
    /\ _commit_history = NoHistory
    /\ result = NoCall
    /\ NoRestartChecker
    /\ NoRestarter

\* The source records one more job of a run of a configured workflow.
AddRow ==
    /\ Cardinality(workflow_job) < MaxRows
    /\ _workflow_commits_cache = NoCache
    /\ \E w \in Range(workflow_names), sha \in Shas, job \in defined_jobs :
          LET row == [workflow_name |-> w, head_sha |-> sha, name |-> job.name,
                      conclusion |-> job.conclusion, status |-> job.status,
                      classification_rule |-> job.classification_rule,
                      workflow_created_at |-> run_created_at[sha]]
          IN  /\ row \notin workflow_job
              /\ workflow_job' = workflow_job \cup {row}
    /\ UNCHANGED <<defined_jobs, run_created_at, push, workflow_names, _workflow_commits_cache,
                   _commit_history, result>>
    /\ UNCHANGED restart_vars
    /\ UNCHANGED restarter_vars

\* checker.get_workflow_commits(w)
GetWorkflowCommits ==
    /\ result = NoCall
    /\ \E w \in Workflows :
          \E after \in {CacheAfterGet(_workflow_commits_cache, workflow_job,
                                      workflow_names, w)} :
              /\ _workflow_commits_cache' = after
              /\ result' = [op |-> "get_workflow_commits", arg |-> w,
                            calls |-> <<>>, value |-> get_workflow_commits(after, w)]
    /\ UNCHANGED <<defined_jobs, workflow_job, run_created_at, push, workflow_names,
                   _commit_history>>
    /\ UNCHANGED restart_vars
    /\ UNCHANGED restarter_vars

\* checker.detect_autorevert_pattern_workflow(w)
DetectWorkflow ==
    /\ result = NoCall
    /\ \E w \in Workflows, rule_order \in RuleOrders :
          \E calls \in {WorkflowCalls(<<w>>, 1, _workflow_commits_cache, workflow_job,
                                      workflow_names, rule_order)} :
              /\ _workflow_commits_cache' = calls[1].cache
              /\ result' = [op |-> "detect_autorevert_pattern_workflow",
                            arg |-> w, calls |-> calls,
                            value |-> calls[1].patterns]
    /\ UNCHANGED <<defined_jobs, workflow_job, run_created_at, push, workflow_names,
                   _commit_history>>
    /\ UNCHANGED restart_vars
    /\ UNCHANGED restarter_vars

\* checker.detect_autorevert_pattern()
DetectAll ==
    /\ result = NoCall
    /\ \E rule_order \in RuleOrders :
          \E calls \in {WorkflowCalls(workflow_names, 1, _workflow_commits_cache,
                                      workflow_job, workflow_names, rule_order)} :
              /\ _workflow_commits_cache' =
                     IF calls = <<>> THEN _workflow_commits_cache
                     ELSE calls[Len(calls)].cache
              /\ result' = [op |-> "detect_autorevert_pattern", arg |-> "",
                            calls |-> calls, value |-> detect_autorevert_pattern(calls)]
    /\ UNCHANGED <<defined_jobs, workflow_job, run_created_at, push, workflow_names,
                   _commit_history>>
    /\ UNCHANGED restart_vars
    /\ UNCHANGED restarter_vars

\* The caller takes the returned value; the checker is ready for the next call.
Return ==
    /\ result # NoCall
    /\ result' = NoCall
    /\ UNCHANGED <<defined_jobs, workflow_job, run_created_at, push, workflow_names,
                   _workflow_commits_cache, _commit_history>>
    /\ UNCHANGED restart_vars
    /\ UNCHANGED restarter_vars

Next ==
    \/ AddRow
    \/ GetWorkflowCommits
    \/ DetectWorkflow
    \/ DetectAll
    \/ Return

Spec == Init /\ [][Next]_vars

\* The jobs among JobMenu that fail with a classification rule.
ClassifiedFailures ==
    {job \in JobMenu : job.conclusion = "failure" /\ job.classification_rule # ""}

\* Three commits four hours apart.
SteadyTimeline == [sha \in Shas |-> (sha - 1) * 4 * SecondsPerHour]

\* AutorevertPatternChecker(client, workflow_names=["pull", "trunk"]) over an
\* empty table of a repository all of whose jobs fail with a rule.
InitAggregate ==
    /\ defined_jobs = ClassifiedFailures
    /\ workflow_job = {}
    /\ run_created_at \in {SteadyTimeline, [sha \in Shas |-> 0]}
    /\ push = {}
    /\ workflow_names = <<"pull", "trunk">>
    /\ _workflow_commits_cache = NoCache
    /\ _commit_history = NoHistory
    /\ result = NoCall
    /\ NoRestartChecker
    /\ NoRestarter

SpecAggregate == InitAggregate /\ [][Next]_vars

-----------------------------------------------------------------------------
(* Revert correlator: commit_history, is_revert_commit, get_revert_commits, *)
(* is_commit_reverted                                                      *)
(*                                                                         *)
(* A SHA of the push table is the sequence of its characters; a message is *)
(* the sequence of its pieces: fixed texts and, where a SHA is named, the  *)
(* characters of the name.                                                 *)

CommitShas == {<<"a", "b">>, <<"b", "a">>, <<"b", "b">>}

HexChars == {"a", "b", "A", "B"}

PushTimes == {0, SecondsPerHour, 2 * SecondsPerHour}

\* 'Revert "Fix X"\n\nThis reverts commit <name>.' and the like
Naming(opening, name) ==
    <<opening, "Fix X\"\n\n", "This reverts commit", " ">> \o name \o <<".">>

Messages ==
    { <<"Fix X">>,
      Naming("Revert \"", <<"a", "b">>),
      Naming("Revert \"", <<"a">>),
      Naming("Revert \"", <<"A", "B">>),
      Naming("Revert \"", <<"a", "b", "a">>),
      Naming("Reland \"", <<"a", "b">>) }

\* message.startswith(prefix)
StartsWith(message, prefix) ==
    /\ Len(message) >= Len(prefix)
    /\ SubSeq(message, 1, Len(prefix)) = prefix

\* text in message
Contains(message, text) ==
    \E at \in 1..(Len(message) - Len(text) + 1) :
        SubSeq(message, at, at + Len(text) - 1) = text

\* The rows of the push query: ORDER BY head_commit.timestamp DESC leaves the
\* order of commits of equal timestamp to the source.
RECURSIVE QueryOrders(_)
QueryOrders(table) ==
    IF table = {} THEN {<<>>}
    ELSE UNION { {<<r>> \o rest : rest \in QueryOrders(table \ {r})} :
                 r \in {r \in table : \A o \in table : r.timestamp >= o.timestamp} }

\* An empty history taken for one not fetched yet: if not self._commit_history
CommitHistoryRefetchingEmpty(history, rows) ==
    IF history = NoHistory \/ history = <<>> THEN rows ELSE history

\* self.commit_history after the property ran: fetched only while it is None
CommitHistoryAfterGet(history, rows) ==
    IF history = NoHistory THEN rows ELSE history

is_revert_commit(commit) ==
    /\ StartsWith(commit.message, <<"Revert \"">>)
    /\ Contains(commit.message, <<"This reverts commit">>)

get_revert_commits(commits) == SelectSeq(commits, is_revert_commit)

NotFound == -1

\* The target taken to be older than every commit when it is not found.
TargetTimeDefaulting(commits, target_commit_sha) ==
    LET found == {k \in 1..Len(commits) : commits[k].sha = target_commit_sha}
    IN  IF found = {} THEN NotFound - 1
        ELSE commits[CHOOSE k \in found : \A o \in found : k <= o].timestamp

\* "Find target commit timestamp": that of the first commit with the SHA, or
\* NotFound (target_time stays None; a datetime is never falsy).
TargetTime(commits, target_commit_sha) ==
    LET found == {k \in 1..Len(commits) : commits[k].sha = target_commit_sha}
    IN  IF found = {} THEN NotFound
        ELSE commits[CHOOSE k \in found : \A o \in found : k <= o].timestamp

\* Commits at the target's own time taken as later.
IsAfterOrAt(commit_time, target_time) == ~(commit_time < target_time)

\* not (commit_time <= target_time)
IsAfter(commit_time, target_time) == ~(commit_time <= target_time)

\* message.startswith('Revert "') and f"This reverts commit {sha}" in message
IsRevertOf(message, target_commit_sha) ==
    /\ StartsWith(message, <<"Revert \"">>)
    /\ Contains(message, <<"This reverts commit", " ">> \o target_commit_sha)

NoMatch == [reverted |-> FALSE]

RevertInfo(commit, target_time) ==
    [reverted |-> TRUE,
     revert_sha |-> commit.sha,
     revert_message |-> commit.message,
     revert_timestamp |-> commit.timestamp,
     hours_after_target |-> (commit.timestamp - target_time) \div SecondsPerHour]

\* The scan started from the oldest commit.
RECURSIVE ScanOldestFirst(_, _, _, _)
ScanOldestFirst(commits, target_commit_sha, target_time, k) ==
    LET at == Len(commits) + 1 - k
    IN  IF k > Len(commits) THEN NoMatch
        ELSE IF /\ IsAfter(commits[at].timestamp, target_time)
                /\ IsRevertOf(commits[at].message, target_commit_sha)
             THEN RevertInfo(commits[at], target_time)
             ELSE ScanOldestFirst(commits, target_commit_sha, target_time, k + 1)

\* "Look for revert commits after target commit": for commit in commits
RECURSIVE ScanForRevert(_, _, _, _)
ScanForRevert(commits, target_commit_sha, target_time, k) ==
    IF k > Len(commits) THEN NoMatch
    ELSE IF /\ IsAfter(commits[k].timestamp, target_time)
            /\ IsRevertOf(commits[k].message, target_commit_sha)
         THEN RevertInfo(commits[k], target_time)
         ELSE ScanForRevert(commits, target_commit_sha, target_time, k + 1)

\* is_commit_reverted over self.commit_history; NoMatch stands for None
is_commit_reverted(commits, target_commit_sha) ==
    LET target_time == TargetTime(commits, target_commit_sha)
    IN  IF target_time = NotFound THEN NoMatch
        ELSE ScanForRevert(commits, target_commit_sha, target_time, 1)

\* AutorevertPatternChecker(client, workflow_names=[]) over an empty push table
InitRevert ==
    /\ defined_jobs = {}
    /\ workflow_job = {}
    /\ run_created_at = [sha \in Shas |-> 0]
    /\ push = {}
    /\ workflow_names = <<>>
    /\ _workflow_commits_cache = NoCache
    /\ _commit_history = NoHistory
    /\ result = NoCall
    /\ NoRestartChecker
    /\ NoRestarter

\* A commit lands on main.
AddPush ==
    /\ _commit_history = NoHistory
    /\ \E sha \in CommitShas, message \in Messages, timestamp \in PushTimes :
          /\ \A r \in push : r.sha # sha
          /\ push' = push \cup {[sha |-> sha, message |-> message,
                                 timestamp |-> timestamp]}
    /\ UNCHANGED <<defined_jobs, workflow_job, run_created_at, workflow_names,
                   _workflow_commits_cache, _commit_history, result>>
    /\ UNCHANGED restart_vars
    /\ UNCHANGED restarter_vars

\* checker.is_commit_reverted(sha)
IsCommitReverted ==
    /\ result = NoCall
    /\ \E sha \in CommitShas, rows \in QueryOrders(push) :
          \E commits \in {CommitHistoryAfterGet(_commit_history, rows)} :
              /\ _commit_history' = commits
              /\ result' = [op |-> "is_commit_reverted", arg |-> sha, calls |-> <<>>,
                            value |-> is_commit_reverted(commits, sha)]
    /\ UNCHANGED <<defined_jobs, workflow_job, run_created_at, push, workflow_names,
                   _workflow_commits_cache>>
    /\ UNCHANGED restart_vars
    /\ UNCHANGED restarter_vars

\* checker.get_revert_commits()
GetRevertCommits ==
    /\ result = NoCall
    /\ \E rows \in QueryOrders(push) :
          \E commits \in {CommitHistoryAfterGet(_commit_history, rows)} :
              /\ _commit_history' = commits
              /\ result' = [op |-> "get_revert_commits", arg |-> "", calls |-> <<>>,
                            value |-> get_revert_commits(commits)]
    /\ UNCHANGED <<defined_jobs, workflow_job, run_created_at, push, workflow_names,
                   _workflow_commits_cache>>
    /\ UNCHANGED restart_vars
    /\ UNCHANGED restarter_vars

NextRevert ==
    \/ AddPush
    \/ IsCommitReverted
    \/ GetRevertCommits
    \/ Return

SpecRevert == InitRevert /\ [][NextRevert]_vars

-----------------------------------------------------------------------------
(* Properties of detect_autorevert_pattern_workflow                        *)

WindowSeconds == 8 * SecondsPerHour

\* The commit has a job with conclusion failure and the classification rule r.
ExhibitsRule(commit, r) ==
    \E k \in 1..Len(commit.jobs) :
        /\ commit.jobs[k].conclusion = "failure"
        /\ commit.jobs[k].classification_rule # ""
        /\ commit.jobs[k].classification_rule = r

\* The calls of detect_autorevert_pattern_workflow behind the value returned.
DetectorCalls == {result.calls[c] : c \in 1..Len(result.calls)}

PatternsOf(call) == {call.patterns[k] : k \in 1..Len(call.patterns)}

CommitsOf(call) == {call.commits[k] : k \in 1..Len(call.commits)}

\* C1: for every Pattern (target T, rule r) that
\* detect_autorevert_pattern_workflow returns, no commit of that workflow
\* created more than 0 and at most 8 hours before T has a failed job with rule r.
WindowCorrectness ==
    \A call \in DetectorCalls : \A p \in PatternsOf(call) : \A commit \in CommitsOf(call) :
        LET before == p.target_commit_time - commit.created_at
        IN  (0 < before /\ before <= WindowSeconds) => ~ExhibitsRule(commit, p.failure_rule)

\* A Pattern was returned while a commit that fails with another rule only lies
\* in the 8 hours before its target.
WindowCorrectnessWitness ==
    \E call \in DetectorCalls : \E p \in PatternsOf(call) : \E commit \in CommitsOf(call) :
        LET before == p.target_commit_time - commit.created_at
        IN  /\ 0 < before /\ before <= WindowSeconds
            /\ \E r \in Rules \ {p.failure_rule} : ExhibitsRule(commit, r)

\* C2: for every Pattern (target T, rule r) that
\* detect_autorevert_pattern_workflow returns, some commit of that workflow
\* created strictly later than T, and at most 8 hours later, has a failed job
\* with rule r.
PersistenceAfterTarget ==
    \A call \in DetectorCalls : \A p \in PatternsOf(call) :
        \E commit \in CommitsOf(call) :
            LET after == commit.created_at - p.target_commit_time
            IN  /\ 0 < after /\ after <= WindowSeconds
                /\ ExhibitsRule(commit, p.failure_rule)

\* The CommitJobs record of the workflow that a pattern's target names.
TargetRecords(call, sha) == {commit \in CommitsOf(call) : commit.head_sha = sha}

HasPendingJob(commit) ==
    \E k \in 1..Len(commit.jobs) : commit.jobs[k].status = "pending"

\* The pairs (workflow, target) that the returned patterns name: each pattern's
\* own, and those folded into additional_workflows.
Flagged(p) ==
    {<<p.workflow_name, p.target_commit>>}
    \cup {<<p.additional_workflows[k].workflow_name, p.target_commit>> :
             k \in 1..Len(p.additional_workflows)}

\* C3: no commit record with a pending job is the target of a Pattern, neither
\* in what detect_autorevert_pattern_workflow returns nor in what
\* detect_autorevert_pattern returns.
PendingExclusion ==
    /\ \A call \in DetectorCalls : \A p \in PatternsOf(call) :
           \A commit \in TargetRecords(call, p.target_commit) : ~HasPendingJob(commit)
    /\ result.op = "detect_autorevert_pattern" =>
           \A k \in 1..Len(result.value) : \A f \in Flagged(result.value[k]) :
               \A call \in DetectorCalls :
                   call.workflow_name = f[1] =>
                       \A commit \in TargetRecords(call, f[2]) : ~HasPendingJob(commit)

\* A detection ran over a commit with a pending job whose failure, lookback and
\* lookahead conditions hold for some rule.
PendingExclusionWitness ==
    /\ result.op \in {"detect_autorevert_pattern_workflow", "detect_autorevert_pattern"}
    /\ \E call \in DetectorCalls : \E i \in 1..Len(call.commits) : \E r \in Rules :
           /\ HasPendingJob(call.commits[i])
           /\ ExhibitsRule(call.commits[i], r)
           /\ \A j \in (i + 1)..Len(call.commits) :
                  call.commits[i].created_at - call.commits[j].created_at <= WindowSeconds
                      => ~ExhibitsRule(call.commits[j], r)
           /\ \E j \in 1..(i - 1) :
                  /\ call.commits[j].created_at - call.commits[i].created_at <= WindowSeconds
                  /\ ExhibitsRule(call.commits[j], r)

\* The windows of section 4.3 for the target at index i: the older commits,
\* and the newer ones, no more than 8 hours away.
LookbackWindow(commits, i) ==
    {j \in (i + 1)..Len(commits) :
        commits[i].created_at - commits[j].created_at <= WindowSeconds}

LookaheadWindow(commits, i) ==
    {j \in 1..(i - 1) :
        commits[j].created_at - commits[i].created_at <= WindowSeconds}

Qualifies(commits, i, r) ==
    /\ ~HasPendingJob(commits[i])
    /\ ExhibitsRule(commits[i], r)
    /\ \A j \in LookbackWindow(commits, i) : ~ExhibitsRule(commits[j], r)
    /\ \E j \in LookaheadWindow(commits, i) : ExhibitsRule(commits[j], r)

\* C4: for every commit T without a pending job and every rule r of its failed
\* jobs, if no commit of T's lookback window fails with r and one of its
\* lookahead window does, detect_autorevert_pattern_workflow returns exactly one
\* Pattern with target T and rule r.
DetectorCompleteness ==
    \A call \in DetectorCalls : \A i \in 1..Len(call.commits) : \A r \in Rules :
        Qualifies(call.commits, i, r) =>
            Cardinality({k \in 1..Len(call.patterns) :
                            /\ call.patterns[k].target_commit = call.commits[i].head_sha
                            /\ call.patterns[k].failure_rule = r
                            /\ call.patterns[k].workflow_name = call.workflow_name}) = 1

\* A target with two qualifying rules got two Patterns.
DetectorCompletenessWitness ==
    \E call \in DetectorCalls : \E i \in 1..Len(call.commits) :
        /\ \A r \in Rules : Qualifies(call.commits, i, r)
        /\ Cardinality({k \in 1..Len(call.patterns) :
                           call.patterns[k].target_commit = call.commits[i].head_sha})
             = Cardinality(Rules)

-----------------------------------------------------------------------------
(* Properties of detect_autorevert_pattern                                 *)

\* The patterns the per-workflow calls returned for the target sha, as pairs
\* <<call number, pattern number>>.
FindingsFor(sha) ==
    {f \in (1..Len(result.calls)) \X (1..2 * Cardinality(Shas) * Cardinality(Rules)) :
        /\ f[2] <= Len(result.calls[f[1]].patterns)
        /\ result.calls[f[1]].patterns[f[2]].target_commit = sha}

Finding(f) == result.calls[f[1]].patterns[f[2]]

AsEntry(p) == [workflow_name |-> p.workflow_name, failure_rule |-> p.failure_rule]

\* C5: in the list detect_autorevert_pattern returns every target SHA appears
\* in at most one Pattern, and every other per-workflow Pattern for that SHA
\* appears only as an entry of that Pattern's additional_workflows.
AggregationUniqueness ==
    result.op = "detect_autorevert_pattern" =>
        /\ \A i, j \in 1..Len(result.value) :
               result.value[i].target_commit = result.value[j].target_commit => i = j
        /\ \A sha \in Shas :
               FindingsFor(sha) # {} =>
                   \E k \in 1..Len(result.value) :
                       LET kept == result.value[k]
                       IN  /\ kept.target_commit = sha
                           /\ Len(kept.additional_workflows) + 1
                                = Cardinality(FindingsFor(sha))
                           /\ \A f \in FindingsFor(sha) :
                                  \/ AsEntry(Finding(f)) = AsEntry(kept)
                                  \/ \E e \in 1..Len(kept.additional_workflows) :
                                         kept.additional_workflows[e] = AsEntry(Finding(f))

\* Scenario C: pull and trunk flag the same target with different rules, and
\* one Pattern with one additional entry is returned.
AggregationUniquenessWitness ==
    /\ result.op = "detect_autorevert_pattern"
    /\ Len(result.value) = 1
    /\ result.value[1].workflow_name = "pull"
    /\ Len(result.value[1].additional_workflows) = 1
    /\ result.value[1].additional_workflows[1].workflow_name = "trunk"
    /\ result.value[1].additional_workflows[1].failure_rule
         # result.value[1].failure_rule

\* C6: every entry of a Pattern's additional_workflows names a workflow other
\* than the Pattern's own workflow_name.
AdditionalWorkflowsAreOthers ==
    result.op = "detect_autorevert_pattern" =>
        \A k \in 1..Len(result.value) :
            \A e \in 1..Len(result.value[k].additional_workflows) :
                result.value[k].additional_workflows[e].workflow_name
                    # result.value[k].workflow_name

-----------------------------------------------------------------------------
(* Properties of is_commit_reverted                                        *)

\* The SHA-like names a message gives after "This reverts commit ": each the
\* longest run of hex characters there.
RECURSIVE HexRun(_, _)
HexRun(message, k) ==
    IF k > Len(message) \/ message[k] \notin HexChars THEN <<>>
    ELSE <<message[k]>> \o HexRun(message, k + 1)

NamesIn(message) ==
    {HexRun(message, k + 2) :
        k \in {k \in 1..(Len(message) - 1) :
                  message[k] = "This reverts commit" /\ message[k + 1] = " "}}

CallReturnedRevert ==
    result.op = "is_commit_reverted" /\ result.value.reverted

\* The history the last call worked on, and in it the places of the target.
HistoryPlaces == 1..Len(_commit_history)

TargetPlaces == {k \in HistoryPlaces : _commit_history[k].sha = result.arg}

TargetTimestamp ==
    _commit_history[CHOOSE k \in TargetPlaces : \A o \in TargetPlaces : k <= o].timestamp

\* C7: is_commit_reverted(sha) returns a match only when the matched message
\* starts with 'Revert "' and names sha itself after "This reverts commit ":
\* a message naming a truncated, a differently-cased or a longer SHA that only
\* starts with sha gives no match.
RevertExactness ==
    CallReturnedRevert =>
        /\ StartsWith(result.value.revert_message, <<"Revert \"">>)
        /\ Contains(result.value.revert_message,
                    <<"This reverts commit", " ">> \o result.arg)
        /\ result.arg \in NamesIn(result.value.revert_message)

\* The later commits whose message qualifies as a revert of the target.
QualifyingPlaces ==
    {k \in HistoryPlaces :
        /\ _commit_history[k].timestamp > TargetTimestamp
        /\ IsRevertOf(_commit_history[k].message, result.arg)}

\* C8: when several later commits qualify as reverts of sha,
\* is_commit_reverted(sha) returns the one that comes first in the order the
\* source supplied the history.
FirstInSuppliedOrder ==
    (result.op = "is_commit_reverted" /\ TargetPlaces # {} /\ QualifyingPlaces # {}) =>
        /\ result.value.reverted
        /\ result.value.revert_sha
             = _commit_history[CHOOSE k \in QualifyingPlaces :
                                  \A o \in QualifyingPlaces : k <= o].sha

\* Two later commits qualify, and the one returned is not the nearest in time.
FirstInSuppliedOrderWitness ==
    /\ CallReturnedRevert
    /\ Cardinality(QualifyingPlaces) >= 2
    /\ \E k \in QualifyingPlaces :
           _commit_history[k].timestamp < result.value.revert_timestamp

\* C9: a match is a commit of the history whose timestamp is strictly greater
\* than the target's, and hours_after_target is the difference of the two in
\* hours, strictly positive.
RevertIsLater ==
    CallReturnedRevert =>
        /\ \E k \in HistoryPlaces :
               /\ _commit_history[k].sha = result.value.revert_sha
               /\ _commit_history[k].message = result.value.revert_message
               /\ _commit_history[k].timestamp = result.value.revert_timestamp
        /\ result.value.revert_timestamp > TargetTimestamp
        /\ result.value.hours_after_target * SecondsPerHour
             = result.value.revert_timestamp - TargetTimestamp
        /\ result.value.hours_after_target > 0

\* A match was returned while a qualifying message sat at the target's own
\* timestamp or before it.
RevertIsLaterWitness ==
    /\ CallReturnedRevert
    /\ \E k \in HistoryPlaces :
           /\ _commit_history[k].timestamp <= TargetTimestamp
           /\ IsRevertOf(_commit_history[k].message, result.arg)

\* C10: is_commit_reverted(sha) for a sha that is not in the fetched history
\* returns None, also when a message of the history says it reverts sha.
UnknownShaGivesNone ==
    (result.op = "is_commit_reverted" /\ TargetPlaces = {}) => result.value = NoMatch

\* The call was made for a SHA not in the history that a message reverts.
UnknownShaGivesNoneWitness ==
    /\ result.op = "is_commit_reverted"
    /\ TargetPlaces = {}
    /\ \E k \in HistoryPlaces : IsRevertOf(_commit_history[k].message, result.arg)

-----------------------------------------------------------------------------
(* normalize_job_name on its own                                           *)

MaxFields == 6

NameFields == {"a", "1"}

\* Job names of up to MaxFields ", "-separated fields.
JobNames == UNION {[1..n -> NameFields] : n \in 1..MaxFields}

\* A source whose one job has any of the names.
InitNormalize ==
    /\ defined_jobs \in {{[name |-> name, conclusion |-> "failure", status |-> "completed",
                           classification_rule |-> "X"]} : name \in JobNames}
    /\ workflow_job = {}
    /\ run_created_at = [sha \in Shas |-> 0]
    /\ push = {}
    /\ workflow_names = <<>>
    /\ _workflow_commits_cache = NoCache
    /\ _commit_history = NoHistory
    /\ result = NoCall
    /\ NoRestartChecker
    /\ NoRestarter

\* commit.normalize_job_name(job.name)
NormalizeJobName ==
    /\ result = NoCall
    /\ \E job \in defined_jobs :
          result' = [op |-> "normalize_job_name", arg |-> job.name, calls |-> <<>>,
                     value |-> normalize_job_name(job.name)]
    /\ UNCHANGED <<defined_jobs, workflow_job, run_created_at, push, workflow_names,
                   _workflow_commits_cache, _commit_history>>
    /\ UNCHANGED restart_vars
    /\ UNCHANGED restarter_vars

NextNormalize ==
    \/ NormalizeJobName
    \/ Return

SpecNormalize == InitNormalize /\ [][NextNormalize]_vars

-----------------------------------------------------------------------------
(* Properties of normalize_job_name                                        *)

\* C11: normalize_job_name is idempotent: normalizing a normalized job name
\* gives that name again, also for names with several adjacent shard markers.
NormalizationIdempotent ==
    result.op = "normalize_job_name" =>
        normalize_job_name(result.value) = result.value

-----------------------------------------------------------------------------
(* The workflow cache over a source that keeps growing                     *)

\* The source records one more job of a run of a configured workflow, at any
\* time of the checker's life.
SourceGrows ==
    /\ Cardinality(workflow_job) < MaxRows
    /\ \E w \in Range(workflow_names), sha \in Shas, job \in defined_jobs :
          LET row == [workflow_name |-> w, head_sha |-> sha, name |-> job.name,
                      conclusion |-> job.conclusion, status |-> job.status,
                      classification_rule |-> job.classification_rule,
                      workflow_created_at |-> run_created_at[sha]]
          IN  /\ row \notin workflow_job
              /\ workflow_job' = workflow_job \cup {row}
    /\ UNCHANGED <<defined_jobs, run_created_at, push, workflow_names, _workflow_commits_cache,
                   _commit_history, result>>
    /\ UNCHANGED restart_vars
    /\ UNCHANGED restarter_vars

\* AutorevertPatternChecker(client, workflow_names=["pull"]) over an empty table
InitCache ==
    /\ defined_jobs = ClassifiedFailures
    /\ workflow_job = {}
    /\ run_created_at = SteadyTimeline
    /\ push = {}
    /\ workflow_names = <<"pull">>
    /\ _workflow_commits_cache = NoCache
    /\ _commit_history = NoHistory
    /\ result = NoCall
    /\ NoRestartChecker
    /\ NoRestarter

NextCache ==
    \/ SourceGrows
    \/ GetWorkflowCommits
    \/ Return

SpecCache == InitCache /\ [][NextCache]_vars

-----------------------------------------------------------------------------
(* Properties of the workflow cache                                        *)

\* C12: the workflow cache is never invalidated: once the cache holds the list
\* of a configured workflow w, get_workflow_commits(w) returns that same list
\* after every later step, whatever was called in between.
CacheNeverInvalidated ==
    [][\A w \in Range(workflow_names) \cap DOMAIN _workflow_commits_cache :
           get_workflow_commits(_workflow_commits_cache', w)
             = get_workflow_commits(_workflow_commits_cache, w)]_vars

-----------------------------------------------------------------------------
(* detect_autorevert_pattern while the source fails                        *)

\* Empty lists stored for the configured workflows before the query is sent.
CacheAfterFailedFetchInitialising(cache, names) ==
    [w \in DOMAIN cache \cup Range(names) |-> IF w \in DOMAIN cache THEN cache[w] ELSE <<>>]

\* _fetch_workflow_data when self.client.query raises: the exception leaves the
\* method before the grouping loop and before any write to the cache.
CacheAfterFailedFetch(cache, names) == cache

\* Whether get_workflow_commits(workflow_name) sends the query.
SendsQuery(cache, names, workflow_name) ==
    workflow_name \notin DOMAIN cache /\ names # <<>>

\* The calls of detect_autorevert_pattern_workflow the loop over
\* self.workflow_names makes while every query raises: a call served from the
\* cache returns its patterns, the first call that sends the query raises and
\* nothing runs after it (there is no try/except on the way up).
RECURSIVE FailingCalls(_, _, _, _, _, _)
FailingCalls(called, k, cache, table, names, rule_order) ==
    IF k > Len(called) THEN <<>>
    ELSE IF SendsQuery(cache, names, called[k])
         THEN << [workflow_name |-> called[k], commits |-> <<>>, patterns |-> <<>>,
                  cache |-> CacheAfterFailedFetch(cache, names),
                  queried |-> TRUE, raised |-> TRUE] >>
         ELSE LET commits == get_workflow_commits(cache, called[k])
              IN  << [workflow_name |-> called[k], commits |-> commits,
                      patterns |->
                          detect_autorevert_pattern_workflow(called[k], commits, rule_order),
                      cache |-> cache, queried |-> FALSE, raised |-> FALSE] >>
                  \o FailingCalls(called, k + 1, cache, table, names, rule_order)

Raised(calls) == calls # <<>> /\ calls[Len(calls)].raised

\* checker.detect_autorevert_pattern() while the source is down: the value is
\* the Pattern list when no query was needed; a call that raised has no value.
DetectAllQueryFails ==
    /\ result = NoCall
    /\ \E rule_order \in RuleOrders :
          \E calls \in {FailingCalls(workflow_names, 1, _workflow_commits_cache,
                                     workflow_job, workflow_names, rule_order)} :
              /\ _workflow_commits_cache' =
                     IF calls = <<>> THEN _workflow_commits_cache
                     ELSE calls[Len(calls)].cache
              /\ result' = [op |-> "detect_autorevert_pattern", arg |-> "",
                            calls |-> calls,
                            value |-> IF Raised(calls) THEN <<>>
                                      ELSE detect_autorevert_pattern(calls)]
    /\ UNCHANGED <<defined_jobs, workflow_job, run_created_at, push, workflow_names,
                   _commit_history>>
    /\ UNCHANGED restart_vars
    /\ UNCHANGED restarter_vars

NextFailure ==
    \/ AddRow
    \/ GetWorkflowCommits
    \/ DetectAllQueryFails
    \/ Return

SpecFailure == InitAggregate /\ [][NextFailure]_vars

-----------------------------------------------------------------------------
(* Properties of a failing fetch                                           *)

\* C13: when the source query fails during detect_autorevert_pattern, the call
\* raises: it returns no Pattern, it sent the query once only, and the workflow
\* cache is what it was before the call.
QueryFailurePropagates ==
    [][(result.op = "none" /\ result'.op = "detect_autorevert_pattern"
          /\ Raised(result'.calls)) =>
           /\ result'.value = <<>>
           /\ Cardinality({k \in 1..Len(result'.calls) : result'.calls[k].queried}) = 1
           /\ _workflow_commits_cache' = _workflow_commits_cache]_vars

\* The call raised over a source that holds a pattern: the newest commit and
\* the one before it fail with the same rule in a configured workflow.
QueryFailurePropagatesWitness ==
    /\ result.op = "detect_autorevert_pattern"
    /\ Raised(result.calls)
    /\ \E a \in workflow_job, b \in workflow_job :
           /\ a.workflow_name = b.workflow_name
           /\ a.classification_rule = b.classification_rule
           /\ a.workflow_created_at < b.workflow_created_at

-----------------------------------------------------------------------------
(* WorkflowRestartChecker (src/src/workflow_checker.py)                    *)
(*                                                                         *)
(* A workflow name is the sequence of its path pieces, a branch the        *)
(* sequence of its prefix and the rest, a cache key the sequence of the    *)
(* pieces of the formatted string.                                         *)

MaxEvents == 2

MaxQueries == 2

\* workflow_name as the source records it
SourceWorkflowNames == {<<".github/workflows/", "trunk.yml">>, <<"pull.yml">>}

WorkflowEvents == {"workflow_dispatch", "push"}

\* How many days before now a run was created, and the days_back asked for.
DaysAgo == {1, 10}

DaysBack == {7, 14}

\* f'trunk/{commit_sha}'
TrunkBranch(commit_sha) == <<"trunk/", commit_sha>>

\* workflow_name LIKE '%<workflow_name>'
EndsWith(name, suffix) ==
    /\ Len(name) >= Len(suffix)
    /\ SubSeq(name, Len(name) - Len(suffix) + 1, Len(name)) = suffix

\* f"{workflow_name}:{commit_sha}"
cache_key(workflow_name, commit_sha) == workflow_name \o <<":", commit_sha>>

\* SELECT COUNT(*) ... of has_restarted_workflow
RestartCount(table, workflow_name, commit_sha) ==
    Cardinality({r \in table :
                    /\ r.head_sha = commit_sha
                    /\ r.workflow_event = "workflow_dispatch"
                    /\ r.head_branch = TrunkBranch(commit_sha)
                    /\ EndsWith(r.workflow_name, workflow_name)})

\* Only a positive answer is stored.
HasRestartedStoringOnlyTrue(cache, table, workflow_name, commit_sha) ==
    LET key == cache_key(workflow_name, commit_sha)
    IN  IF key \in DOMAIN cache
        THEN [value |-> cache[key], cache |-> cache, queries |-> 0]
        ELSE LET has_restart == RestartCount(table, workflow_name, commit_sha) > 0
             IN  [value |-> has_restart,
                  cache |-> IF has_restart
                            THEN [k \in DOMAIN cache \cup {key} |->
                                     IF k = key THEN has_restart ELSE cache[k]]
                            ELSE cache,
                  queries |-> 1]

\* has_restarted_workflow: the value returned, the cache left, the queries sent
has_restarted_workflow(cache, table, workflow_name, commit_sha) ==
    LET key == cache_key(workflow_name, commit_sha)
    IN  IF key \in DOMAIN cache
        THEN [value |-> cache[key], cache |-> cache, queries |-> 0]
        ELSE LET has_restart == RestartCount(table, workflow_name, commit_sha) > 0
             IN  [value |-> has_restart,
                  cache |-> [k \in DOMAIN cache \cup {key} |->
                                IF k = key THEN has_restart ELSE cache[k]],
                  queries |-> 1]

\* SELECT DISTINCT head_sha ... of get_restarted_commits;
\* workflow_created_at >= now - days_back
RestartedShas(table, workflow_name, days_back) ==
    {r.head_sha : r \in {r \in table :
                            /\ r.workflow_event = "workflow_dispatch"
                            /\ r.head_branch[1] = "trunk/"
                            /\ EndsWith(r.workflow_name, workflow_name)
                            /\ r.days_ago <= days_back}}

\* The back-fill leaves the entries the cache already has.
GetRestartedKeepingEntries(cache, table, workflow_name, days_back) ==
    LET commits == RestartedShas(table, workflow_name, days_back)
        keys == {cache_key(workflow_name, commit_sha) : commit_sha \in commits}
    IN  [value |-> commits,
         cache |-> [k \in DOMAIN cache \cup keys |->
                       IF k \in DOMAIN cache THEN cache[k] ELSE TRUE]]

\* get_restarted_commits: the set returned and the cache left
get_restarted_commits(cache, table, workflow_name, days_back) ==
    LET commits == RestartedShas(table, workflow_name, days_back)
        keys == {cache_key(workflow_name, commit_sha) : commit_sha \in commits}
    IN  [value |-> commits,
         cache |-> [k \in DOMAIN cache \cup keys |->
                       IF k \in keys THEN TRUE ELSE cache[k]]]

\* WorkflowRestartChecker() over an empty table
InitRestart ==
    /\ defined_jobs = {}
    /\ workflow_job = {}
    /\ run_created_at = [sha \in Shas |-> 0]
    /\ push = {}
    /\ workflow_names = <<>>
    /\ _workflow_commits_cache = NoCache
    /\ _commit_history = NoHistory
    /\ result = NoCall
    /\ NoRestartChecker
    /\ NoRestarter

\* The source records a job of one more run, between two calls.
AddJobEvent ==
    /\ result = NoCall
    /\ Cardinality(job_events) < MaxEvents
    /\ \E name \in SourceWorkflowNames, sha \in RestartShas, on \in RestartShas,
          event \in WorkflowEvents, days_ago \in DaysAgo :
          LET row == [workflow_name |-> name, head_sha |-> sha,
                      head_branch |-> TrunkBranch(on), workflow_event |-> event,
                      days_ago |-> days_ago]
          IN  /\ row \notin job_events
              /\ job_events' = job_events \cup {row}
    /\ UNCHANGED <<_cache, queries_sent, result>>
    /\ UNCHANGED checker_vars
    /\ UNCHANGED restarter_vars

\* checker.has_restarted_workflow(w, sha)
HasRestartedWorkflow ==
    /\ result = NoCall
    /\ \E w \in RestartWorkflows, sha \in RestartShas :
          \E r \in {has_restarted_workflow(_cache, job_events, w, sha)} :
              /\ queries_sent[<<w, sha>>] + r.queries <= MaxQueries
              /\ _cache' = r.cache
              /\ queries_sent' =
                     [queries_sent EXCEPT ![<<w, sha>>] = @ + r.queries]
              /\ result' = [op |-> "has_restarted_workflow", arg |-> <<w, sha>>,
                            calls |-> <<>>, value |-> r.value]
    /\ UNCHANGED job_events
    /\ UNCHANGED checker_vars
    /\ UNCHANGED restarter_vars

\* checker.get_restarted_commits(w, days_back)
GetRestartedCommits ==
    /\ result = NoCall
    /\ \E w \in RestartWorkflows, days_back \in DaysBack :
          \E r \in {get_restarted_commits(_cache, job_events, w, days_back)} :
              /\ _cache' = r.cache
              /\ result' = [op |-> "get_restarted_commits", arg |-> <<w, days_back>>,
                            calls |-> <<>>, value |-> r.value]
    /\ UNCHANGED <<job_events, queries_sent>>
    /\ UNCHANGED checker_vars
    /\ UNCHANGED restarter_vars

\* checker.clear_cache(); the count of queries starts anew.
ClearCache ==
    /\ result = NoCall
    /\ _cache' = NoResults
    /\ queries_sent' = [pair \in RestartPairs |-> 0]
    /\ result' = [op |-> "clear_cache", arg |-> "", calls |-> <<>>, value |-> <<>>]
    /\ UNCHANGED job_events
    /\ UNCHANGED checker_vars
    /\ UNCHANGED restarter_vars

NextRestart ==
    \/ AddJobEvent
    \/ HasRestartedWorkflow
    \/ GetRestartedCommits
    \/ ClearCache
    \/ Return

SpecRestart == InitRestart /\ [][NextRestart]_vars

\* A checker on which only has_restarted_workflow is called.
NextSingleChecks ==
    \/ AddJobEvent
    \/ HasRestartedWorkflow
    \/ Return

SpecSingleChecks == InitRestart /\ [][NextSingleChecks]_vars

-----------------------------------------------------------------------------
(* Properties of WorkflowRestartChecker                                    *)

\* The source holds a job record of a manual dispatch on trunk/<sha> for the
\* commit sha by a workflow whose name ends in w.
HoldsDispatchRecord(w, sha) ==
    \E r \in job_events :
        /\ r.workflow_event = "workflow_dispatch"
        /\ r.head_branch = <<"trunk/", sha>>
        /\ r.head_sha = sha
        /\ EndsWith(r.workflow_name, w)

CallsHasRestarted == result.op = "none" /\ result'.op = "has_restarted_workflow"

CallsGetRestarted == result.op = "none" /\ result'.op = "get_restarted_commits"

BackfillServesReturnedShas ==
    /\ [](result.op = "get_restarted_commits" =>
             \A sha \in result.value :
                 LET r == has_restarted_workflow(_cache, job_events, result.arg[1], sha)
                 IN  r.value /\ r.queries = 0)
    /\ [][CallsGetRestarted =>
             \A pair \in RestartPairs :
                 (pair[1] # result'.arg[1] \/ pair[2] \notin result'.value) =>
                     LET key == cache_key(pair[1], pair[2])
                     IN  /\ key \in DOMAIN _cache' <=> key \in DOMAIN _cache
                         /\ key \in DOMAIN _cache => _cache'[key] = _cache[key]]_vars

\* get_restarted_commits returned a SHA whose pair has_restarted_workflow had
\* asked the source about before, while the cache holds false for another pair.
BackfillServesReturnedShasWitness ==
    /\ result.op = "get_restarted_commits"
    /\ \E sha \in result.value : queries_sent[<<result.arg[1], sha>>] = 1
    /\ \E key \in DOMAIN _cache : ~_cache[key]

\* C16: has_restarted_workflow(w, sha) returns true exactly when the source
\* holds, at the time of the call, a job record with event workflow_dispatch,
\* branch trunk/<sha>, head SHA sha and a workflow name ending in w.
RestartAnswerIsCurrent ==
    result.op = "has_restarted_workflow" =>
        (result.value <=> HoldsDispatchRecord(result.arg[1], result.arg[2]))

\* C17: every SHA that get_restarted_commits(w, d) returns is one for which
\* has_restarted_workflow(w, sha) of a fresh checker over the same source
\* returns true.
BulkAgreesWithSingle ==
    result.op = "get_restarted_commits" =>
        \A sha \in result.value :
            has_restarted_workflow(NoResults, job_events, result.arg[1], sha).value

-----------------------------------------------------------------------------
(* Properties of the order of detect_autorevert_pattern                    *)

\* The per-workflow patterns in the order the calls returned them.
RECURSIVE FindingsInOrder(_, _)
FindingsInOrder(calls, k) ==
    IF k > Len(calls) THEN <<>>
    ELSE calls[k].patterns \o FindingsInOrder(calls, k + 1)

\* Of these, the first for each target SHA.
RECURSIVE FirstSeen(_, _)
FirstSeen(found, k) ==
    IF k > Len(found) THEN <<>>
    ELSE (IF \E j \in 1..(k - 1) : found[j].target_commit = found[k].target_commit
          THEN <<>> ELSE <<found[k]>>)
         \o FirstSeen(found, k + 1)

\* Where the commit sha stands in the list a call worked on (1 is the newest).
ScanPlace(call, sha) == CHOOSE i \in 1..Len(call.commits) : call.commits[i].head_sha = sha

\* C18: the calls are made in configured order and each returns its patterns in
\* newest-first scan order; the list detect_autorevert_pattern returns holds,
\* in first-seen order, the first per-workflow Pattern of every target SHA,
\* with the workflow_name, failure_rule and lookahead_commits that Pattern had.
CanonicalIsFirstSeen ==
    result.op = "detect_autorevert_pattern" =>
        LET firsts == FirstSeen(FindingsInOrder(result.calls, 1), 1)
        IN  /\ Len(result.calls) = Len(workflow_names)
            /\ \A c \in 1..Len(result.calls) :
                   /\ result.calls[c].workflow_name = workflow_names[c]
                   /\ \A k \in 1..(Len(result.calls[c].patterns) - 1) :
                          ScanPlace(result.calls[c], result.calls[c].patterns[k].target_commit)
                            <= ScanPlace(result.calls[c],
                                         result.calls[c].patterns[k + 1].target_commit)
            /\ Len(result.value) = Len(firsts)
            /\ \A k \in 1..Len(firsts) :
                   /\ result.value[k].target_commit = firsts[k].target_commit
                   /\ result.value[k].workflow_name = firsts[k].workflow_name
                   /\ result.value[k].failure_rule = firsts[k].failure_rule
                   /\ result.value[k].lookahead_commits = firsts[k].lookahead_commits

\* A Pattern of trunk was folded into the one kept from pull for the same
\* target, and the two differ in rule and in lookahead commits.
CanonicalIsFirstSeenWitness ==
    /\ result.op = "detect_autorevert_pattern"
    /\ \E f \in 1..Len(result.calls[2].patterns), k \in 1..Len(result.value) :
           /\ result.calls[2].patterns[f].target_commit = result.value[k].target_commit
           /\ result.value[k].workflow_name = "pull"
           /\ result.calls[2].patterns[f].failure_rule # result.value[k].failure_rule
           /\ result.calls[2].patterns[f].lookahead_commits
                # result.value[k].lookahead_commits

-----------------------------------------------------------------------------
(* Properties of the window boundaries                                     *)

\* The commits of the list created exactly 8 hours before, or after, commits[i].
ExactlyWindowBefore(commits, i) ==
    {j \in 1..Len(commits) : commits[i].created_at - commits[j].created_at = WindowSeconds}

ExactlyWindowAfter(commits, i) ==
    {j \in 1..Len(commits) : commits[j].created_at - commits[i].created_at = WindowSeconds}

PatternsFor(call, i, r) ==
    {k \in 1..Len(call.patterns) :
        /\ call.patterns[k].target_commit = call.commits[i].head_sha
        /\ call.patterns[k].failure_rule = r}

\* C19: both windows are inclusive at exactly 8 hours and end there.  A commit
\* created exactly 8 hours before a target that fails with rule r prevents the
\* Pattern for (target, r); a commit created exactly 8 hours after it that
\* fails with r counts as persistence; and the commits a Pattern reports as
\* checked and as lookahead are those no more than 8 hours away.
InclusiveBoundaries ==
    \A call \in DetectorCalls : \A i \in 1..Len(call.commits) : \A r \in Rules :
        /\ (\E j \in ExactlyWindowBefore(call.commits, i) : ExhibitsRule(call.commits[j], r))
               => PatternsFor(call, i, r) = {}
        /\ ( /\ ~HasPendingJob(call.commits[i])
             /\ ExhibitsRule(call.commits[i], r)
             /\ \A j \in LookbackWindow(call.commits, i) : ~ExhibitsRule(call.commits[j], r)
             /\ \E j \in ExactlyWindowAfter(call.commits, i) : ExhibitsRule(call.commits[j], r) )
               => PatternsFor(call, i, r) # {}
        /\ \A k \in PatternsFor(call, i, r) :
               /\ call.patterns[k].lookback_commits_checked
                    = Cardinality(LookbackWindow(call.commits, i))
               /\ call.patterns[k].lookahead_commits_checked
                    = Cardinality(LookaheadWindow(call.commits, i))
               /\ Range(call.patterns[k].lookahead_commits)
                    = {call.commits[j].head_sha :
                          j \in {j \in LookaheadWindow(call.commits, i) :
                                    ExhibitsRule(call.commits[j], r)}}

\* A Pattern was returned whose persistence rests on a commit exactly 8 hours
\* after the target alone, while a commit more than 8 hours before the target
\* fails with the same rule.
InclusiveBoundariesWitness ==
    \E call \in DetectorCalls : \E i \in 1..Len(call.commits) : \E r \in Rules :
        /\ PatternsFor(call, i, r) # {}
        /\ \A j \in LookaheadWindow(call.commits, i) :
               ExhibitsRule(call.commits[j], r) => j \in ExactlyWindowAfter(call.commits, i)
        /\ \E j \in 1..Len(call.commits) :
               /\ call.commits[i].created_at - call.commits[j].created_at > WindowSeconds
               /\ ExhibitsRule(call.commits[j], r)

-----------------------------------------------------------------------------
(* Scenario A: three commits at t = -7h, t = -2h and t = 0                 *)

ScenarioTimeline ==
    [sha \in Shas |-> IF sha = 1 THEN 0
                      ELSE IF sha = 2 THEN 5 * SecondsPerHour
                      ELSE 7 * SecondsPerHour]

\* AutorevertPatternChecker(client, workflow_names=["pull"]) over an empty table
InitScenario ==
    /\ defined_jobs = JobMenu
    /\ workflow_job = {}
    /\ run_created_at = ScenarioTimeline
    /\ push = {}
    /\ workflow_names = <<"pull">>
    /\ _workflow_commits_cache = NoCache
    /\ _commit_history = NoHistory
    /\ result = NoCall
    /\ NoRestartChecker
    /\ NoRestarter

SpecScenario == InitScenario /\ [][Next]_vars

\* The list a call worked on is that of Scenario A: the newest commit (t = 0)
\* fails with rule X and has no pending job, the one 2 hours older fails with
\* rule X, the one 7 hours older is completed and does not fail with rule X.
IsScenarioA(call) ==
    /\ Len(call.commits) = 3
    /\ call.commits[1].created_at - call.commits[2].created_at = 2 * SecondsPerHour
    /\ call.commits[1].created_at - call.commits[3].created_at = 7 * SecondsPerHour
    /\ ExhibitsRule(call.commits[1], "X")
    /\ ~HasPendingJob(call.commits[1])
    /\ ExhibitsRule(call.commits[2], "X")
    /\ ~ExhibitsRule(call.commits[3], "X")
    /\ ~HasPendingJob(call.commits[3])

\* C20: in Scenario A the detector returns a Pattern for rule X whose target
\* is the commit at t = 0, with the commit at t = -2h as its lookahead and one
\* lookback commit checked.
ScenarioAAsStated ==
    \A call \in DetectorCalls :
        IsScenarioA(call) =>
            \E p \in PatternsOf(call) :
                /\ p.failure_rule = "X"
                /\ p.target_commit = call.commits[1].head_sha
                /\ p.lookahead_commits = <<call.commits[2].head_sha>>
                /\ p.lookback_commits_checked = 1

\* C20 as amended: in Scenario A, when the commit at t = -2h has no pending
\* job, the detector returns exactly one Pattern for rule X: its target is the
\* commit at t = -2h, its lookahead the commit at t = 0, and one lookback commit
\* (the one at t = -7h) was checked.
ScenarioATargetsOlderCommit ==
    \A call \in DetectorCalls :
        (IsScenarioA(call) /\ ~HasPendingJob(call.commits[2])) =>
            /\ \E p \in PatternsOf(call) :
                   /\ p.failure_rule = "X"
                   /\ p.target_commit = call.commits[2].head_sha
                   /\ p.lookahead_commits = <<call.commits[1].head_sha>>
                   /\ p.lookback_commits_checked = 1
            /\ Cardinality({k \in 1..Len(call.patterns) :
                               call.patterns[k].failure_rule = "X"}) = 1

\* detect_autorevert_pattern_workflow ran over Scenario A with no pending job
\* on the commit at t = -2h.
ScenarioATargetsOlderCommitWitness ==
    /\ result.op = "detect_autorevert_pattern_workflow"
    /\ \E call \in DetectorCalls :
           /\ IsScenarioA(call)
           /\ ~HasPendingJob(call.commits[2])
           /\ \E p \in PatternsOf(call) : p.failure_rule = "X"

-----------------------------------------------------------------------------
(* A workflow whose test job runs in two shards                            *)

ShardJobs ==
    { [name |-> <<"test (default", "1", "2", "linux)">>, conclusion |-> "failure",
       status |-> "completed", classification_rule |-> "Y"],
      [name |-> <<"test (default", "2", "2", "linux)">>, conclusion |-> "failure",
       status |-> "completed", classification_rule |-> "Y"] }

\* AutorevertPatternChecker(client, workflow_names=["pull"]) over an empty table
InitShards ==
    /\ defined_jobs = ShardJobs
    /\ workflow_job = {}
    /\ run_created_at = SteadyTimeline
    /\ push = {}
    /\ workflow_names = <<"pull">>
    /\ _workflow_commits_cache = NoCache
    /\ _commit_history = NoHistory
    /\ result = NoCall
    /\ NoRestartChecker
    /\ NoRestarter

SpecShards == InitShards /\ [][Next]_vars

\* C21: the failed job names of a Pattern are a set of normalized names: every
\* name is the normalized name of a job of the source, and no name occurs twice,
\* also when several shards of a job failed on the target with the rule.
FailedJobNamesAreASet ==
    \A call \in DetectorCalls : \A p \in PatternsOf(call) :
        /\ \A a \in 1..Len(p.failed_job_names) :
               \E job \in defined_jobs :
                   p.failed_job_names[a] = normalize_job_name(job.name)
        /\ \A a, b \in 1..Len(p.failed_job_names) :
               p.failed_job_names[a] = p.failed_job_names[b] => a = b

-----------------------------------------------------------------------------
(* The cached lists over a growing source and any timeline                 *)

\* AutorevertPatternChecker(client, workflow_names=["pull"]) over an empty table
InitRefetch ==
    /\ defined_jobs = ClassifiedFailures
    /\ workflow_job = {}
    /\ run_created_at \in Timelines
    /\ push = {}
    /\ workflow_names = <<"pull">>
    /\ _workflow_commits_cache = NoCache
    /\ _commit_history = NoHistory
    /\ result = NoCall
    /\ NoRestartChecker
    /\ NoRestarter

SpecRefetch == InitRefetch /\ [][NextCache]_vars

CachedLists == {_workflow_commits_cache[w] : w \in DOMAIN _workflow_commits_cache}

\* C22: every commit list in the cache is sorted newest-first by created_at and
\* holds each commit SHA once, so that the window scans with their early exit
\* visit exactly the commits no more than 8 hours from the target.
CachedListsSorted ==
    \A list \in CachedLists :
        /\ \A i, j \in 1..Len(list) :
               /\ i < j => list[i].created_at >= list[j].created_at
               /\ list[i].head_sha = list[j].head_sha => i = j
        /\ \A i \in 1..Len(list) :
               /\ Range(LookbackScan(list, list[i].created_at, i + 1))
                    = {list[j] : j \in {j \in (i + 1)..Len(list) :
                           list[i].created_at - list[j].created_at <= WindowSeconds}}
               /\ Range(LookaheadScan(list, list[i].created_at, i - 1))
                    = {list[j] : j \in {j \in 1..(i - 1) :
                           list[j].created_at - list[i].created_at <= WindowSeconds}}

\* get_workflow_commits for a name that is not configured fetched the lists
\* anew, and one of three commits has its oldest commit more than 8 hours from
\* its newest.
CachedListsSortedWitness ==
    /\ result.op = "get_workflow_commits"
    /\ result.arg = "trunk"
    /\ \E list \in CachedLists :
           /\ Len(list) = 3
           /\ list[1].created_at - list[3].created_at > WindowSeconds
           /\ list[1].created_at > list[2].created_at

-----------------------------------------------------------------------------
(* Properties of the lookahead of a Pattern                                *)

\* C23: the newest commit of the list a call worked on is never the target of
\* a Pattern, and a list of one commit gives no Pattern.
NewestIsNeverTarget ==
    \A call \in DetectorCalls :
        /\ \A p \in PatternsOf(call) : p.target_commit # call.commits[1].head_sha
        /\ Len(call.commits) = 1 => call.patterns = <<>>

\* A call worked on a list whose newest commit fails with a rule, has no
\* pending job and no commit failing with that rule in its lookback window.
NewestIsNeverTargetWitness ==
    \E call \in DetectorCalls : \E r \in Rules :
        /\ Len(call.commits) >= 2
        /\ ExhibitsRule(call.commits[1], r)
        /\ ~HasPendingJob(call.commits[1])
        /\ \A j \in LookbackWindow(call.commits, 1) : ~ExhibitsRule(call.commits[j], r)

\* C24: in every Pattern the lookahead commits are at least one and no more
\* than the lookahead commits checked, the target is not among them, no SHA
\* occurs twice, and they are listed from the one nearest to the target to the
\* newest.
LookaheadWellFormed ==
    \A call \in DetectorCalls : \A p \in PatternsOf(call) :
        LET ahead == p.lookahead_commits
        IN  /\ 1 <= Len(ahead)
            /\ Len(ahead) <= p.lookahead_commits_checked
            /\ \A a \in 1..Len(ahead) :
                   /\ ahead[a] # p.target_commit
                   /\ \E commit \in CommitsOf(call) : commit.head_sha = ahead[a]
            /\ \A a, b \in 1..Len(ahead) :
                   /\ ahead[a] = ahead[b] => a = b
                   /\ a < b =>
                          /\ ScanPlace(call, ahead[b]) < ScanPlace(call, ahead[a])
                          /\ ScanPlace(call, ahead[a]) < ScanPlace(call, p.target_commit)
                          /\ call.commits[ScanPlace(call, ahead[a])].created_at
                               <= call.commits[ScanPlace(call, ahead[b])].created_at

\* A Pattern with two lookahead commits created at different times.
LookaheadWellFormedWitness ==
    \E call \in DetectorCalls : \E p \in PatternsOf(call) :
        /\ Len(p.lookahead_commits) = 2
        /\ call.commits[ScanPlace(call, p.lookahead_commits[1])].created_at
             < call.commits[ScanPlace(call, p.lookahead_commits[2])].created_at

-----------------------------------------------------------------------------
(* Properties of what detect_autorevert_pattern keeps                      *)

RECURSIVE CountFindings(_, _)
CountFindings(calls, k) ==
    IF k > Len(calls) THEN 0
    ELSE Len(calls[k].patterns) + CountFindings(calls, k + 1)

RECURSIVE CountReported(_, _)
CountReported(patterns, k) ==
    IF k > Len(patterns) THEN 0
    ELSE 1 + Len(patterns[k].additional_workflows) + CountReported(patterns, k + 1)

\* C25: the Patterns detect_autorevert_pattern returns and the entries of
\* their additional_workflows are together as many as the Patterns that the
\* calls of detect_autorevert_pattern_workflow, one per configured workflow,
\* returned.
NoFindingLost ==
    result.op = "detect_autorevert_pattern" =>
        /\ Len(result.calls) = Len(workflow_names)
        /\ CountReported(result.value, 1) = CountFindings(result.calls, 1)

\* One Pattern was returned that holds a folded entry, and the workflows
\* returned two Patterns.
NoFindingLostWitness ==
    /\ result.op = "detect_autorevert_pattern"
    /\ CountFindings(result.calls, 1) = 2
    /\ Len(result.value) = 1
    /\ Len(result.value[1].additional_workflows) = 1

\* C26: detect_autorevert_pattern is deterministic: a second run over the same
\* fetched data and the same configured workflows, whatever the order in which
\* it iterates over the rules of a target, returns for every target SHA a
\* Pattern with the same workflow_name and failure_rule.
AggregationDeterministic ==
    result.op = "detect_autorevert_pattern" =>
        \A rule_order \in RuleOrders :
            LET again == detect_autorevert_pattern(
                             WorkflowCalls(workflow_names, 1, _workflow_commits_cache,
                                           workflow_job, workflow_names, rule_order))
            IN  /\ Len(again) = Len(result.value)
                /\ \A k \in 1..Len(result.value) : \E a \in 1..Len(again) :
                       /\ again[a].target_commit = result.value[k].target_commit
                       /\ again[a].workflow_name = result.value[k].workflow_name
                       /\ again[a].failure_rule = result.value[k].failure_rule

-----------------------------------------------------------------------------
(* The revert checker of the script over a push table that keeps growing   *)

LandingMessages == {<<"Fix X">>, Naming("Revert \"", <<"a", "b">>)}

LandingTimes == {0, SecondsPerHour}

\* A commit lands on main, at any time of the checker's life.
PushLands ==
    /\ \E sha \in CommitShas, message \in LandingMessages, timestamp \in LandingTimes :
          /\ \A r \in push : r.sha # sha
          /\ push' = push \cup {[sha |-> sha, message |-> message,
                                 timestamp |-> timestamp]}
    /\ UNCHANGED <<defined_jobs, workflow_job, run_created_at, workflow_names,
                   _workflow_commits_cache, _commit_history, result>>
    /\ UNCHANGED restart_vars
    /\ UNCHANGED restarter_vars

NextHistory ==
    \/ PushLands
    \/ IsCommitReverted
    \/ GetRevertCommits
    \/ GetWorkflowCommits
    \/ Return

\* AutorevertPatternChecker(client, workflow_names=[]), as the script makes it
SpecHistory == InitRevert /\ [][NextHistory]_vars

\* C27: the commit history is fetched at most once: once self._commit_history
\* holds a list, the empty one included, no call replaces it whatever lands in
\* the source afterwards; and a checker without workflows never sends the
\* workflow-data query.
HistoryFetchedOnce ==
    /\ [][_commit_history # NoHistory => _commit_history' = _commit_history]_vars
    /\ [](workflow_names = <<>> =>
             /\ \A w \in Workflows :
                    ~SendsQuery(_workflow_commits_cache, workflow_names, w)
             /\ _workflow_commits_cache = NoCache)

\* A call was answered from an empty fetched history after a commit had landed.
HistoryFetchedOnceWitness ==
    /\ result.op \in {"is_commit_reverted", "get_revert_commits"}
    /\ _commit_history = <<>>
    /\ push # {}

-----------------------------------------------------------------------------
(* WorkflowRestarter (src/src/workflow_restart.py)                         *)
(*                                                                         *)
(* Each request to GitHub is one step, so that the calls of two callers    *)
(* interleave between requests.  A response is its status code, or raised  *)
(* when requests threw instead of answering.                               *)

StatusOK == 200

StatusCreated == 201

StatusNoContent == 204

Response(status) == [status |-> status, raised |-> FALSE]

\* requests.get / requests.post threw (connection error, timeout)
RequestRaised == [status |-> 0, raised |-> TRUE]

\* What GitHub answers to GET git/refs/tags/<tag_ref>
TagCheckResponses(repository, tag_ref) ==
    {IF tag_ref \in repository THEN Response(StatusOK) ELSE Response(404),
     Response(500), RequestRaised}

\* What GitHub answers to POST git/refs, and the tags it then has: a ref that
\* exists already is refused with 422.
TagCreateOutcomes(repository, tag_ref) ==
    {IF tag_ref \in repository
     THEN [response |-> Response(422), tags |-> repository]
     ELSE [response |-> Response(StatusCreated), tags |-> repository \cup {tag_ref}],
     [response |-> Response(500), tags |-> repository],
     [response |-> RequestRaised, tags |-> repository]}

\* What GitHub answers to POST actions/workflows/<workflow_name>/dispatches
DispatchResponses(repository, ref) ==
    (IF ref \in repository THEN {Response(StatusNoContent)} ELSE {})
    \cup {Response(422), RequestRaised}

\* _tag_exists: response.status_code == 200, False when the request threw
_tag_exists(response) == ~response.raised /\ response.status = StatusOK

\* _create_tag: True on 201, False on any other status or when the request threw
_create_tag(response) == ~response.raised /\ response.status = StatusCreated

\* True whenever GitHub answered.
DispatchedWhenAnswered(response) == ~response.raised

\* _dispatch_workflow: True on 204, False on any other status or when the
\* request threw
_dispatch_workflow(response) == ~response.raised /\ response.status = StatusNoContent

\* The call goes on to the dispatch whatever _create_tag returned.
AfterCreateTagAlwaysDispatching(created) == "_dispatch_workflow"

\* if not self._create_tag(tag_ref, commit_sha): return False
AfterCreateTag(created) == IF created THEN "_dispatch_workflow" ELSE "return"

Sent(c, request, ref, response) ==
    Append(restarter[c].requests,
           [request |-> request, ref |-> ref, status |-> response.status,
            raised |-> response.raised])

\* restarter.restart_workflow_for_commit(w, sha) begins: tag_ref is set
RestartWorkflowForCommit(c) ==
    /\ restarter[c].pc = "idle"
    /\ \E w \in RestartWorkflows, sha \in RestartShas :
          restarter' = [restarter EXCEPT ![c] =
                           [pc |-> "_tag_exists", workflow_name |-> w, commit_sha |-> sha,
                            requests |-> <<>>, value |-> FALSE]]
    /\ UNCHANGED tags
    /\ UNCHANGED <<checker_vars, result, restart_vars>>

\* if not self._tag_exists(tag_ref)
TagExists(c) ==
    /\ restarter[c].pc = "_tag_exists"
    /\ LET tag_ref == TrunkBranch(restarter[c].commit_sha)
       IN  \E response \in TagCheckResponses(tags, tag_ref) :
               restarter' = [restarter EXCEPT
                   ![c].requests = Sent(c, "GET git/refs/tags", tag_ref, response),
                   ![c].pc = IF _tag_exists(response) THEN "_dispatch_workflow"
                             ELSE "_create_tag"]
    /\ UNCHANGED tags
    /\ UNCHANGED <<checker_vars, result, restart_vars>>

\* if not self._create_tag(tag_ref, commit_sha): return False
CreateTag(c) ==
    /\ restarter[c].pc = "_create_tag"
    /\ LET tag_ref == TrunkBranch(restarter[c].commit_sha)
       IN  \E outcome \in TagCreateOutcomes(tags, tag_ref) :
               /\ tags' = outcome.tags
               /\ restarter' = [restarter EXCEPT
                      ![c].requests = Sent(c, "POST git/refs", tag_ref, outcome.response),
                      ![c].pc = AfterCreateTag(_create_tag(outcome.response)),
                      ![c].value = FALSE]
    /\ UNCHANGED <<checker_vars, result, restart_vars>>

\* return self._dispatch_workflow(workflow_name, tag_ref, inputs)
DispatchWorkflow(c) ==
    /\ restarter[c].pc = "_dispatch_workflow"
    /\ LET tag_ref == TrunkBranch(restarter[c].commit_sha)
       IN  \E response \in DispatchResponses(tags, tag_ref) :
               restarter' = [restarter EXCEPT
                   ![c].requests = Sent(c, "POST dispatches", tag_ref, response),
                   ![c].pc = "return",
                   ![c].value = _dispatch_workflow(response)]
    /\ UNCHANGED tags
    /\ UNCHANGED <<checker_vars, result, restart_vars>>

\* The caller takes the boolean returned.
ReturnFromRestart(c) ==
    /\ restarter[c].pc = "return"
    /\ restarter' = [restarter EXCEPT ![c] = Idle]
    /\ UNCHANGED tags
    /\ UNCHANGED <<checker_vars, result, restart_vars>>

NextRestarter ==
    \E c \in Callers :
        \/ RestartWorkflowForCommit(c)
        \/ TagExists(c)
        \/ CreateTag(c)
        \/ DispatchWorkflow(c)
        \/ ReturnFromRestart(c)

SpecRestarter == InitRestart /\ [][NextRestarter]_vars

-----------------------------------------------------------------------------
(* Properties of restart_workflow_for_commit                               *)

Requests(c) == restarter[c].requests

IsDispatch(r) == r.request = "POST dispatches"

\* The response shows the tag: the check answered 200 or the create 201.
TagFoundOrCreated(r) ==
    /\ ~r.raised
    /\ \/ r.request = "GET git/refs/tags" /\ r.status = StatusOK
       \/ r.request = "POST git/refs" /\ r.status = StatusCreated

\* The call's check was negative and its create failed.
CheckAndCreateFailed(c) ==
    /\ Len(Requests(c)) >= 2
    /\ Requests(c)[1].request = "GET git/refs/tags"
    /\ ~TagFoundOrCreated(Requests(c)[1])
    /\ Requests(c)[2].request = "POST git/refs"
    /\ ~TagFoundOrCreated(Requests(c)[2])

SentDispatch(c) == \E i \in DOMAIN Requests(c) : IsDispatch(Requests(c)[i])

\* C28: restart_workflow_for_commit(w, sha) sends the dispatch request only
\* after the tag trunk/<sha> was found to exist (200) or was created (201) in
\* the same call, the dispatched ref is trunk/<sha>, and a call whose check was
\* negative and whose create failed returns False without a dispatch request.
DispatchOnlyAfterTag ==
    \A c \in Callers :
        /\ \A i \in DOMAIN Requests(c) :
               IsDispatch(Requests(c)[i]) =>
                   /\ Requests(c)[i].ref = <<"trunk/", restarter[c].commit_sha>>
                   /\ \E j \in 1..(i - 1) : TagFoundOrCreated(Requests(c)[j])
        /\ CheckAndCreateFailed(c) =>
               /\ restarter[c].pc = "return"
               /\ restarter[c].value = FALSE
               /\ ~SentDispatch(c)

\* One caller returned after a failed create, the other dispatched after a 201.
DispatchOnlyAfterTagWitness ==
    \E c, d \in Callers :
        /\ restarter[c].pc = "return"
        /\ CheckAndCreateFailed(c)
        /\ ~SentDispatch(c)
        /\ Len(Requests(d)) = 3
        /\ Requests(d)[2].status = StatusCreated
        /\ IsDispatch(Requests(d)[3])

\* C29: restart_workflow_for_commit never raises: whatever the three requests
\* answer or throw, the call ends by returning a boolean, and it returns True
\* only if its last request was the dispatch, answered with status 204.
ReturnsTrueOnlyOn204 ==
    \A c \in Callers :
        /\ restarter[c].pc \in {"idle", "_tag_exists", "_create_tag",
                                "_dispatch_workflow", "return"}
        /\ restarter[c].value \in BOOLEAN
        /\ restarter[c].pc # "return" => restarter[c].value = FALSE
        /\ restarter[c].value = TRUE =>
               /\ Len(Requests(c)) >= 2
               /\ LET last == Requests(c)[Len(Requests(c))]
                  IN  /\ IsDispatch(last)
                      /\ ~last.raised
                      /\ last.status = StatusNoContent

\* One caller returned True after a 204, the other returned False after a
\* dispatch request that threw or was refused.
ReturnsTrueOnlyOn204Witness ==
    \E c, d \in Callers :
        /\ restarter[c].pc = "return"
        /\ restarter[c].value = TRUE
        /\ restarter[d].pc = "return"
        /\ restarter[d].value = FALSE
        /\ SentDispatch(d)
        /\ \E i \in DOMAIN Requests(d) : Requests(d)[i].raised

\* The call's check answered 404 and its create was refused with 422: the tag
\* was created between the two requests.
TagAppearedAfterCheck(c) ==
    /\ Len(Requests(c)) >= 2
    /\ Requests(c)[1].request = "GET git/refs/tags"
    /\ ~Requests(c)[1].raised /\ Requests(c)[1].status = 404
    /\ Requests(c)[2].request = "POST git/refs"
    /\ ~Requests(c)[2].raised /\ Requests(c)[2].status = 422

\* C30: when two calls for the same commit interleave, a call whose existence
\* check ran before the other caller created the tag still sends its dispatch
\* request: it does not return without one while the tag is in the repository.
InterleavedCallsDispatch ==
    \A c \in Callers :
        (/\ restarter[c].pc = "return"
         /\ <<"trunk/", restarter[c].commit_sha>> \in tags
         /\ TagAppearedAfterCheck(c))
            => SentDispatch(c)

====
